---- MODULE Spec2Model ----
(***************************************************************************)
(* Podcatcher-Web: the playback engine (src/js/player.js, class            *)
(* AudioPlayer), the media element it drives and the persistent store      *)
(* (localStorage through src/js/utils.js).                                 *)
(*                                                                         *)
(* The media element is the HTML audio element: the player calls its API   *)
(* (pause, play, load, the src and currentTime setters) and receives its   *)
(* events one task at a time, in the order the element queued them.        *)
(* Timers (setTimeout) fire at any moment after they were scheduled.       *)
(* localStorage.setItem is taken to succeed.                               *)
(***************************************************************************)
EXTENDS Integers, Sequences, FiniteSets, TLC

VARIABLES
    audio,           \* the media element (this.audio)
    currentEpisode,  \* this.currentEpisode
    isPlaying,       \* this.isPlaying
    currentTime,     \* this.currentTime, the engine's last known position
    duration,        \* this.duration, the engine's last known duration
    loading,         \* the play button shows the loading state (setLoadingState)
    controls,        \* the transport controls that are disabled
    announced,       \* the last announcement, when it reports a failure
    races,           \* the readiness races started by waitForReadyAndPlay
    store,           \* localStorage: currentEpisode and playbackPosition
    now,             \* Date.now()
    advances,        \* how often the clock was advanced
    api,             \* podcastAPI: the requests in flight and its last answer
    web,             \* what a fetch of the feed comes to
    raised           \* the error the last step raised to its caller, or ""

vars == <<audio, currentEpisode, isPlaying, currentTime, duration, loading,
          controls, announced, races, store, now, advances, api, web,
          raised>>

----------------------------------------------------------------------------
(* Bounds of the model *)

MaxEvents == 2
MaxRaces == 1
MaxAdvances == 2
MaxPending == 2
MaxKeys == 1

(* Program constants *)

StaleAge == 86400000
ReadyLevel == 3
SkipBackDefault == 15
SkipForwardDefault == 30

----------------------------------------------------------------------------
(* Values *)

Null == [null |-> TRUE]

EpisodeA == [title |-> "A", audioUrl |-> "a.mp3", guid |-> "gA"]
EpisodeB == [title |-> "B", audioUrl |-> "b.mp3", guid |-> "gB"]
EpisodeNoAudio == [title |-> "C", audioUrl |-> "", guid |-> "gC"]

ValidEpisodes == {EpisodeA, EpisodeB}
LoadArguments == ValidEpisodes \cup {Null, EpisodeNoAudio}

\* The length of the medium behind a source, as the element reports it once
\* the metadata is there.
MediaLength(url) == 30

\* How far the position moves between two time-update events.
PlayStep == 15

\* Steps by which the clock is advanced.
ClockSteps == {1, StaleAge - 1}

MediaErrorCodes == {2, 4}

ErrorMessages ==
    {"Unable to play this episode", "Network error - check your connection",
     "Audio format not supported",
     "Audio source not supported or blocked by CORS",
     "Audio loading was aborted", "play rejected"}

TimeoutMessage == "Episode loading timeout. Press play to try again."

\* announceToScreenReader(msg), as far as the model keeps it: a failure report
\* stays until the next announcement, any other message leaves "".
Announce(msg) == IF msg \in ErrorMessages \cup {TimeoutMessage} THEN msg ELSE ""

----------------------------------------------------------------------------
(* The media element.  Its fields are the attributes the player reads, the *)
(* tasks it has queued on the media element event task source (queue) and  *)
(* whether a promise returned by play() is still unsettled (promises).     *)
(* A duration of 0 stands for the unknown duration (NaN).                  *)

\* the transport controls: play/pause, skip back, skip forward, progress bar
Controls == {"playPauseBtn", "skipBackBtn", "skipForwardBtn", "progressBar"}

\* the page as it is served: no control is disabled
InitialControls == [c \in Controls |-> FALSE]

\* a setLoadingState that leaves the progress bar alone
SetLoadingState_NoProgressBar(v) ==
    /\ loading' = v
    /\ controls' = [c \in Controls |->
                       IF c = "progressBar" THEN controls[c] ELSE v]

\* setLoadingState(loading)
SetLoadingState(v) ==
    /\ loading' = v
    /\ controls' = [c \in Controls |-> v]

\* no feed is served
NoFeed == [kind |-> "rejected", message |-> "Failed to fetch"]

FreshAudio ==
    [src |-> "", paused |-> TRUE, currentTime |-> 0, duration |-> 0,
     readyState |-> 0, error |-> 0, queue |-> <<>>, promises |-> FALSE]

Min(a, b) == IF a < b THEN a ELSE b
Max(a, b) == IF a > b THEN a ELSE b

\* audio.pause(): a playing element is paused and queues timeupdate, pause.
AudioPause(a) ==
    IF a.paused THEN a
    ELSE [a EXCEPT !.paused = TRUE, !.queue = @ \o <<"timeupdate", "pause">>]

\* audio.currentTime = t: below HAVE_METADATA the value is only recorded;
\* otherwise the element seeks (clamped to the medium) and queues timeupdate.
AudioSetCurrentTime(a, t) ==
    IF a.readyState = 0 THEN [a EXCEPT !.currentTime = t]
    ELSE [a EXCEPT !.currentTime = Max(0, Min(t, a.duration)),
                   !.queue = Append(@, "timeupdate")]

\* The media element load algorithm: pending tasks are dropped, the element
\* is reset and resource selection queues loadstart.
AudioLoad(a) ==
    [a EXCEPT !.paused = TRUE, !.currentTime = 0, !.duration = 0,
              !.readyState = 0, !.error = 0, !.queue = <<"loadstart">>]

\* audio.src = url runs the load algorithm on the new source.
AudioSetSrc(a, url) == AudioLoad([a EXCEPT !.src = url])

\* audio.play(): the returned promise is pending; when the element lets the
\* request through (allowed) a paused element starts and queues play, and
\* waiting while it has no future data.
AudioPlay(a, allowed) ==
    IF ~allowed THEN [a EXCEPT !.promises = TRUE]
    ELSE [a EXCEPT !.promises = TRUE, !.paused = FALSE,
                   !.queue = @ \o (IF a.paused
                                   THEN <<"play">> \o
                                        (IF a.readyState < ReadyLevel
                                         THEN <<"waiting">> ELSE <<>>)
                                   ELSE <<>>)]

----------------------------------------------------------------------------
(* The persistent store (utils.js saveToLocalStorage / loadFromLocalStorage) *)

\* localStorage: the two records of the player, and under cache the entries
\* of getCachedData / setCachedData by their key
EmptyStore ==
    [currentEpisode |-> Null, playbackPosition |-> Null,
     cache |-> [k \in {} |-> Null]]

\* podcastAPI after construction: no request in flight, nothing answered
FreshApi ==
    [pending |-> {},
     answer |-> [kind |-> "none", value |-> Null, replaced |-> FALSE]]

\* saveCurrentEpisode
SaveCurrentEpisode(st, ep, t) ==
    IF ep # Null
    THEN [st EXCEPT !.currentEpisode = [episode |-> ep, timestamp |-> t]]
    ELSE st

\* a savePlaybackPosition that also writes position 0
SavePlaybackPosition_Always(st, ep, pos, t) ==
    IF ep # Null
    THEN [st EXCEPT !.playbackPosition =
              [episodeGuid |-> ep.guid, position |-> pos, timestamp |-> t]]
    ELSE st

\* a savePlaybackPosition that keeps the guid of the record it replaces
SavePlaybackPosition_KeepGuid(st, ep, pos, t) ==
    IF ep # Null /\ pos > 0
    THEN [st EXCEPT !.playbackPosition =
              [episodeGuid |-> IF st.playbackPosition = Null THEN ep.guid
                               ELSE st.playbackPosition.episodeGuid,
               position |-> pos, timestamp |-> t]]
    ELSE st

\* savePlaybackPosition
SavePlaybackPosition(st, ep, pos, t) ==
    IF ep # Null /\ pos > 0
    THEN [st EXCEPT !.playbackPosition =
              [episodeGuid |-> ep.guid, position |-> pos, timestamp |-> t]]
    ELSE st

----------------------------------------------------------------------------
(* Readiness races (waitForReadyAndPlay): one record per call.             *)
(* poll: the tryPlay timer is scheduled; listener: onCanPlay is            *)
(* registered; timeout: the 10 second timer is pending.  plays counts the  *)
(* calls of this.play() made by the race, ready records that the element   *)
(* reached ReadyLevel since the race began, timedOut that the race         *)
(* reported the loading timeout.                                           *)

NewRace ==
    [poll |-> TRUE, listener |-> TRUE, timeout |-> TRUE, plays |-> 0,
     ready |-> FALSE, timedOut |-> FALSE]

\* the test of tryPlay: HAVE_FUTURE_DATA or more
Ready(a) == a.readyState >= ReadyLevel

\* a timer that takes only an empty element for not ready
NotReadyAtTimeout_Empty(a) == a.readyState = 0

\* the test of the 10 second timer
NotReadyAtTimeout(a) == a.readyState < ReadyLevel

NoteReady(rs, a) ==
    [i \in DOMAIN rs |->
        IF Ready(a) THEN [rs[i] EXCEPT !.ready = TRUE]
        ELSE rs[i]]

\* a play() without the check for an episode
PlayerPlay_NoCheck(a, ep, allowed) == AudioPlay(a, allowed)

\* this.play(): nothing without an episode, otherwise audio.play().
PlayerPlay(a, ep, allowed) == IF ep = Null THEN a ELSE AudioPlay(a, allowed)

QueueFits(a) == Len(a.queue) <= MaxEvents

----------------------------------------------------------------------------
(* Construction: the constructor ends with loadSavedState.                 *)

\* an age test that lets a record of exactly 24 hours pass
Fresh_Inclusive(rec, t) == t - rec.timestamp <= StaleAge

\* the age test of loadSavedState, for either record
Fresh(rec, t) == t - rec.timestamp < StaleAge

\* loadSavedState: the episode to restore, or Null
SavedEpisode(st, t) ==
    IF st.currentEpisode # Null /\ Fresh(st.currentEpisode, t)
    THEN st.currentEpisode.episode
    ELSE Null

\* a restore that does not compare the guids
PositionRestored_AnyGuid(st, t) ==
    /\ SavedEpisode(st, t) # Null
    /\ st.playbackPosition # Null
    /\ Fresh(st.playbackPosition, t)
    /\ st.playbackPosition.position > 0

\* loadSavedState: whether the saved position is sought
PositionRestored(st, t) ==
    /\ SavedEpisode(st, t) # Null
    /\ st.playbackPosition # Null
    /\ st.playbackPosition.episodeGuid = st.currentEpisode.episode.guid
    /\ Fresh(st.playbackPosition, t)
    /\ st.playbackPosition.position > 0

\* the media element after the constructor
ConstructedAudio(st, t) ==
    IF PositionRestored(st, t)
    THEN AudioSetCurrentTime(FreshAudio, st.playbackPosition.position)
    ELSE FreshAudio

Init ==
    /\ store = EmptyStore
    /\ now = 0
    /\ advances = 0
    /\ api = FreshApi
    /\ web = NoFeed
    /\ audio = ConstructedAudio(EmptyStore, 0)
    /\ currentEpisode = SavedEpisode(EmptyStore, 0)
    /\ isPlaying = FALSE
    /\ currentTime = 0
    /\ duration = 0
    /\ loading = FALSE
    /\ controls = InitialControls
    /\ announced = ""
    /\ races = <<>>
    /\ raised = ""

\* The page is opened again: a new AudioPlayer over the same store.
Restart ==
    /\ audio' = ConstructedAudio(store, now)
    /\ currentEpisode' = SavedEpisode(store, now)
    /\ isPlaying' = FALSE
    /\ currentTime' = 0
    /\ duration' = 0
    /\ loading' = FALSE
    /\ controls' = InitialControls
    /\ announced' = ""
    /\ races' = <<>>
    /\ raised' = ""
    /\ api' = FreshApi
    /\ UNCHANGED <<store, now, advances, web>>

\* Time passes.
Advance(d) ==
    /\ advances < MaxAdvances
    /\ now' = now + d
    /\ advances' = advances + 1
    /\ raised' = ""
    /\ UNCHANGED <<audio, currentEpisode, isPlaying, currentTime, duration,
                   loading, controls, announced, races, store, api, web>>

----------------------------------------------------------------------------
(* loadEpisode *)

\* a check that forgets the audio locator
InvalidEpisode_NullOnly(e) == e = Null

InvalidEpisode(e) == IF e = Null THEN TRUE ELSE e.audioUrl = ""

\* the calls loadEpisode makes on the media element, in order: pause(),
\* currentTime = 0, src = audioUrl, load()
\* a loadEpisode that does not pause first
BeforeSource_NoPause(a) == AudioSetCurrentTime(a, 0)

BeforeSource(a) == AudioSetCurrentTime(AudioPause(a), 0)

\* a loadEpisode that does not assign the source
LoadedAudio_KeepSource(a, e) == AudioLoad(BeforeSource(a))

LoadedAudio(a, e) == AudioLoad(AudioSetSrc(BeforeSource(a), e.audioUrl))

\* waitForReadyAndPlay: the first tryPlay runs at once
StartedRace(a) ==
    IF Ready(a)
    THEN [NewRace EXCEPT !.poll = FALSE, !.plays = 1, !.ready = TRUE]
    ELSE NewRace

LoadEpisode(e, autoPlay, allowed) ==
    IF InvalidEpisode(e)
    THEN /\ raised' = "Invalid episode data"
         /\ UNCHANGED <<audio, currentEpisode, isPlaying, currentTime, duration,
                        loading, controls, announced, races, store, now, advances, api, web>>
    ELSE LET a == LoadedAudio(audio, e)
         IN  /\ autoPlay => Len(races) < MaxRaces
             /\ currentEpisode' = e
             /\ SetLoadingState(TRUE)
             /\ store' = SaveCurrentEpisode(store, e, now)
             /\ IF autoPlay
                THEN /\ announced' = Announce("Loading episode")
                     /\ races' = Append(races, StartedRace(a))
                     /\ audio' = IF Ready(a) THEN PlayerPlay(a, e, allowed) ELSE a
                ELSE /\ announced' = Announce("Loaded episode. Press play to start.")
                     /\ races' = races
                     /\ audio' = a
             /\ raised' = ""
             /\ UNCHANGED <<isPlaying, currentTime, duration, now, advances, api, web>>

\* PodcatcherApp.playEpisode, run when an episode of the list is selected:
\* loadEpisode(episode, podcastName), so autoPlay takes its default, false;
\* what loadEpisode throws is caught and shown.
PlayEpisode(e) ==
    IF InvalidEpisode(e)
    THEN /\ raised' = ""
         /\ announced' = Announce("Failed to play episode")
         /\ UNCHANGED <<audio, currentEpisode, isPlaying, currentTime, duration,
                        loading, controls, races, store, now, advances, api, web>>
    ELSE LoadEpisode(e, FALSE, FALSE)

----------------------------------------------------------------------------
(* Transport operations *)

Play(allowed) ==
    /\ audio' = PlayerPlay(audio, currentEpisode, allowed)
    /\ QueueFits(audio')
    /\ raised' = ""
    /\ UNCHANGED <<currentEpisode, isPlaying, currentTime, duration, loading, controls,
                   announced, races, store, now, advances, api, web>>

\* a pause() that does not look at the element's paused flag, on an element
\* that reports every pause
PlayerPause_Forced(a) ==
    [a EXCEPT !.paused = TRUE, !.queue = @ \o <<"timeupdate", "pause">>]

\* this.pause()
PlayerPause(a) == IF ~a.paused THEN AudioPause(a) ELSE a

Pause ==
    /\ audio' = PlayerPause(audio)
    /\ QueueFits(audio')
    /\ raised' = ""
    /\ UNCHANGED <<currentEpisode, isPlaying, currentTime, duration, loading, controls,
                   announced, races, store, now, advances, api, web>>

\* a togglePlayPause that goes by the cached this.isPlaying
TogglePlayPause_Cached(allowed) ==
    /\ audio' = IF currentEpisode = Null THEN audio
                ELSE IF ~isPlaying
                     THEN PlayerPlay(audio, currentEpisode, allowed)
                     ELSE PlayerPause(audio)
    /\ QueueFits(audio')
    /\ raised' = ""
    /\ UNCHANGED <<currentEpisode, isPlaying, currentTime, duration, loading, controls,
                   announced, races, store, now, advances, api, web>>

TogglePlayPause(allowed) ==
    /\ audio' = IF currentEpisode = Null THEN audio
                ELSE IF audio.paused
                     THEN PlayerPlay(audio, currentEpisode, allowed)
                     ELSE PlayerPause(audio)
    /\ QueueFits(audio')
    /\ raised' = ""
    /\ UNCHANGED <<currentEpisode, isPlaying, currentTime, duration, loading, controls,
                   announced, races, store, now, advances, api, web>>

\* a skipBack without Math.max
SkipBackTarget_NoFloor(a, seconds) == a.currentTime - seconds

SkipBackTarget(a, seconds) == Max(0, a.currentTime - seconds)
SkipForwardTarget(a, seconds) == Min(a.duration, a.currentTime + seconds)

SkipBack(seconds) ==
    /\ IF currentEpisode = Null
       THEN UNCHANGED <<audio, announced>>
       ELSE /\ audio' = AudioSetCurrentTime(audio, SkipBackTarget(audio, seconds))
            /\ announced' = Announce("Skipped back")
    /\ QueueFits(audio')
    /\ raised' = ""
    /\ UNCHANGED <<currentEpisode, isPlaying, currentTime, duration, loading, controls,
                   races, store, now, advances, api, web>>

SkipForward(seconds) ==
    /\ IF currentEpisode = Null
       THEN UNCHANGED <<audio, announced>>
       ELSE /\ audio' = AudioSetCurrentTime(audio, SkipForwardTarget(audio, seconds))
            /\ announced' = Announce("Skipped forward")
    /\ QueueFits(audio')
    /\ raised' = ""
    /\ UNCHANGED <<currentEpisode, isPlaying, currentTime, duration, loading, controls,
                   races, store, now, advances, api, web>>

\* a seek that takes the percentage for seconds
SeekTarget_Seconds(a, percentage) == percentage

SeekTarget(a, percentage) == (percentage * a.duration) \div 100

Seek(percentage) ==
    /\ audio' = IF currentEpisode = Null \/ audio.duration = 0 THEN audio
                ELSE AudioSetCurrentTime(audio, SeekTarget(audio, percentage))
    /\ QueueFits(audio')
    /\ raised' = ""
    /\ UNCHANGED <<currentEpisode, isPlaying, currentTime, duration, loading, controls,
                   announced, races, store, now, advances, api, web>>

\* a destroy that keeps the episode
Destroy_KeepEpisode ==
    /\ audio' = PlayerPause(audio)
    /\ QueueFits(audio')
    /\ raised' = ""
    /\ UNCHANGED <<currentEpisode, isPlaying, currentTime, duration, loading, controls,
                   announced, races, store, now, advances, api, web>>

Destroy ==
    /\ audio' = PlayerPause(audio)
    /\ QueueFits(audio')
    /\ currentEpisode' = Null
    /\ raised' = ""
    /\ UNCHANGED <<isPlaying, currentTime, duration, loading, controls, announced,
                   races, store, now, advances, api, web>>

----------------------------------------------------------------------------
(* The media element at work *)

NextReadyState(n) == IF n = 0 THEN 1 ELSE IF n < ReadyLevel THEN ReadyLevel ELSE 4

\* More of the medium arrives: metadata, then enough data to play, then
\* enough to play through.
MediaProgress ==
    /\ audio.src # "" /\ audio.error = 0 /\ audio.readyState < 4
    /\ LET n == NextReadyState(audio.readyState)
           len == MediaLength(audio.src)
       IN  audio' = [audio EXCEPT
                        !.readyState = n,
                        !.duration = len,
                        !.currentTime = Min(@, len),
                        !.queue = Append(@, IF n = 1 THEN "loadedmetadata"
                                            ELSE IF n = ReadyLevel THEN "canplay"
                                            ELSE "canplaythrough")]
    /\ QueueFits(audio')
    /\ races' = NoteReady(races, audio')
    /\ raised' = ""
    /\ UNCHANGED <<currentEpisode, isPlaying, currentTime, duration, loading, controls,
                   announced, store, now, advances, api, web>>

\* Playback advances.
MediaTick ==
    /\ ~audio.paused /\ audio.error = 0 /\ audio.readyState >= ReadyLevel
    /\ audio.currentTime < audio.duration
    /\ audio' = [audio EXCEPT
                    !.currentTime = Min(audio.duration, @ + PlayStep),
                    !.queue = Append(@, "timeupdate")]
    /\ QueueFits(audio')
    /\ raised' = ""
    /\ UNCHANGED <<currentEpisode, isPlaying, currentTime, duration, loading, controls,
                   announced, races, store, now, advances, api, web>>

\* Playback has reached the end of the medium: the element pauses itself.
MediaEnd ==
    /\ ~audio.paused /\ audio.error = 0 /\ audio.readyState >= ReadyLevel
    /\ audio.currentTime = audio.duration
    /\ audio' = [audio EXCEPT !.paused = TRUE, !.queue = @ \o <<"pause", "ended">>]
    /\ QueueFits(audio')
    /\ raised' = ""
    /\ UNCHANGED <<currentEpisode, isPlaying, currentTime, duration, loading, controls,
                   announced, races, store, now, advances, api, web>>

\* The element fails with a MediaError code.
MediaFail(code) ==
    /\ audio.src # "" /\ audio.error = 0
    /\ audio' = [audio EXCEPT !.error = code, !.queue = Append(@, "error")]
    /\ QueueFits(audio')
    /\ raised' = ""
    /\ UNCHANGED <<currentEpisode, isPlaying, currentTime, duration, loading, controls,
                   announced, races, store, now, advances, api, web>>

\* Playback runs out of data: the element falls back to HAVE_CURRENT_DATA
\* and queues timeupdate and waiting.
MediaStall ==
    /\ ~audio.paused /\ audio.error = 0 /\ audio.readyState >= ReadyLevel
    /\ audio' = [audio EXCEPT !.readyState = ReadyLevel - 1,
                              !.queue = @ \o <<"timeupdate", "waiting">>]
    /\ QueueFits(audio')
    /\ raised' = ""
    /\ UNCHANGED <<currentEpisode, isPlaying, currentTime, duration, loading, controls,
                   announced, races, store, now, advances, api, web>>

----------------------------------------------------------------------------
(* Event handlers *)

\* onError: the message for a media error event
ErrorMessage(code) ==
    CASE code = 2 -> "Network error - check your connection"
      [] code = 3 -> "Audio format not supported"
      [] code = 4 -> "Audio source not supported or blocked by CORS"
      [] code = 1 -> "Audio loading was aborted"
      [] OTHER -> "Unable to play this episode"

\* the races after a canplay event: every registered onCanPlay removes itself
\* and calls this.play()
AfterCanPlay(rs) ==
    [i \in DOMAIN rs |->
        IF rs[i].listener
        THEN [rs[i] EXCEPT !.listener = FALSE, !.plays = @ + 1]
        ELSE rs[i]]

Listening(rs) == {i \in DOMAIN rs : rs[i].listener}

\* an onCanPlay that calls audio.play() itself
PlayTimes_Direct(a, ep, allowed, k) ==
    IF k = 0 THEN a ELSE AudioPlay(a, allowed)

RECURSIVE PlayTimes(_, _, _, _)
PlayTimes(a, ep, allowed, k) ==
    IF k = 0 THEN a ELSE PlayTimes(PlayerPlay(a, ep, allowed), ep, allowed, k - 1)

\* the events whose handlers call setLoadingState
LoadingEvents ==
    {"loadstart", "waiting", "loadedmetadata", "canplaythrough", "error"}

\* setLoadingState as the handlers of the media events call it
LoadingAfter(ev, was) ==
    CASE ev \in {"loadstart", "waiting"} -> TRUE
      [] ev \in {"loadedmetadata", "canplaythrough", "error"} -> FALSE
      [] OTHER -> was

\* this.isPlaying as onPlay, onPause, onEnded and onError set it
PlayingAfter(ev, was) ==
    CASE ev = "play" -> TRUE
      [] ev \in {"pause", "ended", "error"} -> FALSE
      [] OTHER -> was

\* what the handler of the event announces
AnnouncedAfter(ev, a, was) ==
    CASE ev = "play" -> Announce("Playing")
      [] ev = "pause" -> Announce("Paused")
      [] ev = "ended" -> Announce("Episode finished")
      [] ev = "error" -> Announce(ErrorMessage(a.error))
      [] OTHER -> was

\* The next task of the media element runs: the handler of its event.
Deliver(allowed) ==
    /\ audio.queue # <<>>
    /\ LET ev == Head(audio.queue)
           a == [audio EXCEPT !.queue = Tail(@)]
       IN  /\ audio' = IF ev = "canplay"
                       THEN PlayTimes(a, currentEpisode, allowed,
                                      Cardinality(Listening(races)))
                       ELSE a
           /\ QueueFits(audio')
           /\ races' = IF ev = "canplay" THEN AfterCanPlay(races) ELSE races
           /\ IF ev \in LoadingEvents
              THEN SetLoadingState(LoadingAfter(ev, loading))
              ELSE UNCHANGED <<loading, controls>>
           /\ isPlaying' = PlayingAfter(ev, isPlaying)
           /\ duration' = IF ev = "loadedmetadata" THEN a.duration ELSE duration
           /\ currentTime' = IF ev = "timeupdate" /\ a.duration # 0
                             THEN a.currentTime ELSE currentTime
           /\ store' = IF ev = "timeupdate" /\ a.duration # 0
                       THEN SavePlaybackPosition(store, currentEpisode,
                                                 a.currentTime, now)
                       ELSE store
           /\ announced' = AnnouncedAfter(ev, a, announced)
    /\ raised' = ""
    /\ UNCHANGED <<currentEpisode, now, advances, api, web>>

\* The promise of a play() call is fulfilled: play() only logs.
PlayResolved(more) ==
    /\ audio.promises /\ ~audio.paused /\ audio.readyState >= ReadyLevel
    /\ audio' = [audio EXCEPT !.promises = more]
    /\ raised' = ""
    /\ UNCHANGED <<currentEpisode, isPlaying, currentTime, duration, loading, controls,
                   announced, races, store, now, advances, api, web>>

\* The promise of a play() call is rejected: play() announces and calls
\* onError with the rejection.
PlayRejected(more) ==
    /\ audio.promises
    /\ audio' = [audio EXCEPT !.promises = more]
    /\ SetLoadingState(FALSE)
    /\ isPlaying' = FALSE
    /\ announced' = Announce("play rejected")
    /\ raised' = ""
    /\ UNCHANGED <<currentEpisode, currentTime, duration, races, store, now,
                   advances, api, web>>

----------------------------------------------------------------------------
(* The timers of waitForReadyAndPlay *)

\* tryPlay, run by its 100 ms timer
PollTick(i, allowed) ==
    /\ i \in DOMAIN races /\ races[i].poll
    /\ IF Ready(audio)
       THEN /\ audio' = PlayerPlay(audio, currentEpisode, allowed)
            /\ races' = [races EXCEPT ![i].poll = FALSE, ![i].plays = @ + 1]
       ELSE UNCHANGED <<audio, races>>
    /\ QueueFits(audio')
    /\ raised' = ""
    /\ UNCHANGED <<currentEpisode, isPlaying, currentTime, duration, loading, controls,
                   announced, store, now, advances, api, web>>

\* the 10 second timer
TimeoutFire(i) ==
    /\ i \in DOMAIN races /\ races[i].timeout
    /\ IF NotReadyAtTimeout(audio)
       THEN /\ races' = [races EXCEPT ![i].timeout = FALSE, ![i].listener = FALSE,
                                      ![i].timedOut = TRUE]
            /\ SetLoadingState(FALSE)
            /\ announced' = Announce(TimeoutMessage)
       ELSE /\ races' = [races EXCEPT ![i].timeout = FALSE, ![i].listener = FALSE]
            /\ UNCHANGED <<loading, controls, announced>>
    /\ raised' = ""
    /\ UNCHANGED <<audio, currentEpisode, isPlaying, currentTime, duration,
                   store, now, advances, api, web>>

----------------------------------------------------------------------------
(* The cache (utils.js getCachedData / setCachedData over localStorage).   *)
(* What the catalog caches are arrays and objects of strings and numbers,  *)
(* which JSON.parse gives back as JSON.stringify took them.                *)

PlayerKeys == {"currentEpisode", "playbackPosition"}

\* Object.keys(localStorage)
StoreKeys(st) == DOMAIN st.cache \cup {k \in PlayerKeys : st[k] # Null}

\* localStorage.removeItem(key)
RemoveItem(st, key) ==
    IF key \in PlayerKeys THEN [st EXCEPT ![key] = Null]
    ELSE [st EXCEPT !.cache = [k \in DOMAIN st.cache \ {key} |-> st.cache[k]]]

\* localStorage.getItem(key), parsed
CacheEntry(st, key) == IF key \in DOMAIN st.cache THEN st.cache[key] ELSE Null

\* getCachedData: the entry is too old
Expired(entry, maxAge, t) == t - entry.timestamp > maxAge

\* getCachedData: what it returns, Null for null
CachedValue(st, key, maxAge, t) ==
    LET entry == CacheEntry(st, key)
    IN  IF entry = Null THEN Null
        ELSE IF Expired(entry, maxAge, t) THEN Null
        ELSE entry.value

\* getCachedData: the store it leaves
StoreAfterGet(st, key, maxAge, t) ==
    LET entry == CacheEntry(st, key)
    IN  IF entry = Null THEN st
        ELSE IF Expired(entry, maxAge, t) THEN RemoveItem(st, key)
        ELSE st

\* a setCachedData that keeps the timestamp of the entry it overwrites
SetCachedData_KeepTimestamp(st, key, value, t) ==
    [st EXCEPT !.cache =
        [k \in DOMAIN st.cache \cup {key} |->
            IF k = key
            THEN [value |-> value,
                  timestamp |-> IF key \in DOMAIN st.cache
                                THEN st.cache[key].timestamp ELSE t]
            ELSE st.cache[k]]]

\* setCachedData
SetCachedData(st, key, value, t) ==
    [st EXCEPT !.cache =
        [k \in DOMAIN st.cache \cup {key} |->
            IF k = key THEN [value |-> value, timestamp |-> t]
            ELSE st.cache[k]]]

\* String.prototype.startsWith
StartsWith(s, p) == Len(s) >= Len(p) /\ SubSeq(s, 1, Len(p)) = p

\* a clearCache with a prefix that is too short
CachePrefixes_Loose == {"search_", "p", "episodes_"}

\* the prefixes clearCache removes
CachePrefixes == {"search_", "podcast_", "episodes_"}

\* clearCache
ClearedStore(st) ==
    LET doomed == {k \in StoreKeys(st) :
                      \E p \in CachePrefixes : StartsWith(k, p)}
    IN  [currentEpisode |-> IF "currentEpisode" \in doomed THEN Null
                            ELSE st.currentEpisode,
         playbackPosition |-> IF "playbackPosition" \in doomed THEN Null
                              ELSE st.playbackPosition,
         cache |-> [k \in DOMAIN st.cache \ doomed |-> st.cache[k]]]

----------------------------------------------------------------------------
(* The catalog client (src/unnamed/part_001, class PodcastAPI).  A call    *)
(* is its name and its argument; the limits keep their default values.     *)
(* A string of the model cannot hold a character above U+00FF: WideChar    *)
(* stands for one.                                                         *)

SearchLimit == 50
PopularLimit == 20
SearchMaxAge == 900000
LookupMaxAge == 1800000
PopularMaxAge == 3600000

WideChar == "^"

Queries == {"", " ", "cats", " <cats> "}
PodcastIds == {"", "7"}
FeedUrls == {"", "feed.xml", "http://f/a", "http://f/" \o WideChar}

Calls ==
    [op : {"search"}, arg : Queries] \cup [op : {"podcast"}, arg : PodcastIds]
    \cup [op : {"episodes"}, arg : FeedUrls] \cup [op : {"popular"}, arg : {""}]

\* what a successful request yields, after transformPodcastData or
\* parseEpisodesFromXML: an empty list, or one with an item
Results == {[items |-> <<>>], [items |-> <<"first">>]}

Responses ==
    {[status |-> "ok", body |-> v] : v \in Results}
    \cup {[status |-> s, body |-> Null] : s \in {"network", "http", "format"}}

CacheClockSteps == {SearchMaxAge, LookupMaxAge, PopularMaxAge}

RECURSIVE TrimLeft(_)
TrimLeft(s) ==
    IF s = "" THEN s
    ELSE IF SubSeq(s, 1, 1) = " " THEN TrimLeft(SubSeq(s, 2, Len(s)))
    ELSE s

RECURSIVE TrimRight(_)
TrimRight(s) ==
    IF s = "" THEN s
    ELSE IF SubSeq(s, Len(s), Len(s)) = " "
         THEN TrimRight(SubSeq(s, 1, Len(s) - 1))
    ELSE s

\* String.prototype.trim
Trim(s) == TrimRight(TrimLeft(s))

RECURSIVE RemoveAngles(_)
RemoveAngles(s) ==
    IF s = "" THEN s
    ELSE (IF SubSeq(s, 1, 1) \in {"<", ">"} THEN "" ELSE SubSeq(s, 1, 1))
         \o RemoveAngles(SubSeq(s, 2, Len(s)))

\* sanitizeInput
SanitizeInput(input) == IF input = "" THEN "" ELSE RemoveAngles(Trim(input))

Letters ==
    {"a", "b", "c", "d", "e", "f", "g", "h", "i", "j", "k", "l", "m", "n",
     "o", "p", "q", "r", "s", "t", "u", "v", "w", "x", "y", "z"}

\* isValidUrl: new URL(string) takes a string that begins with a scheme
IsValidUrl(s) ==
    \E i \in 2..Len(s) :
        /\ SubSeq(s, i, i) = ":"
        /\ \A j \in 1..(i - 1) : SubSeq(s, j, j) \in Letters

\* btoa throws on a character above U+00FF
Latin1(s) == \A i \in 1..Len(s) : SubSeq(s, i, i) # WideChar

\* btoa on a Latin-1 string: an encoding that tells any two strings apart
Btoa(s) == "b64(" \o s \o ")"

\* the checks the operations open with
ArgumentValid(c) ==
    CASE c.op = "search" -> c.arg # "" /\ Trim(c.arg) # ""
      [] c.op = "podcast" -> c.arg # ""
      [] c.op = "episodes" -> c.arg # "" /\ IsValidUrl(c.arg)
      [] OTHER -> TRUE

\* the key cannot be built: btoa throws
KeyFails(c) == c.op = "episodes" /\ ~Latin1(c.arg)

CacheKey(c) ==
    CASE c.op = "search" ->
             "search_" \o SanitizeInput(c.arg) \o "_" \o ToString(SearchLimit)
      [] c.op = "podcast" -> "podcast_" \o c.arg
      [] c.op = "episodes" -> "episodes_" \o Btoa(c.arg)
      [] OTHER -> "popular_" \o c.arg \o "_" \o ToString(PopularLimit)

\* an API that keeps every answer for 15 minutes
MaxAgeOf_Uniform(op) == SearchMaxAge

\* the maxAge each operation passes to getCachedData
MaxAgeOf(op) ==
    CASE op = "search" -> SearchMaxAge
      [] op = "popular" -> PopularMaxAge
      [] OTHER -> LookupMaxAge

\* if (cached): an array or an object is truthy, null is not
Truthy(v) == v # Null

\* what a call has come to: kind says how, value is what it returned,
\* replaced whether its write to the cache found an entry under the key
Answer(kind, value, replaced) ==
    [kind |-> kind, value |-> value, replaced |-> replaced]

\* the keys of the cache and of the requests in flight
KeysInUse(st, pending) == DOMAIN st.cache \cup {CacheKey(r) : r \in pending}

\* searchPodcasts, getPodcastById, getPodcastEpisodes, getPopularPodcasts up
\* to the await of fetch.  The requests in flight are the calls that wait
\* for their response.
CatalogCall(c) ==
    /\ IF ~ArgumentValid(c)
       THEN /\ api' = [api EXCEPT !.answer = Answer("invalid", Null, FALSE)]
            /\ store' = store
       ELSE IF KeyFails(c)
       THEN /\ api' = [api EXCEPT !.answer = Answer("thrown", Null, FALSE)]
            /\ store' = store
       ELSE LET key == CacheKey(c)
                cached == CachedValue(store, key, MaxAgeOf(c.op), now)
            IN  /\ store' = StoreAfterGet(store, key, MaxAgeOf(c.op), now)
                /\ IF Truthy(cached)
                   THEN api' = [api EXCEPT !.answer = Answer("hit", cached, FALSE)]
                   ELSE /\ c \notin api.pending
                        /\ Cardinality(api.pending) < MaxPending
                        /\ Cardinality(KeysInUse(store, api.pending) \cup {key})
                              <= MaxKeys
                        /\ api' = [pending |-> api.pending \cup {c},
                                   answer |-> Answer("fetching", Null, FALSE)]
    /\ raised' = ""
    /\ UNCHANGED <<audio, currentEpisode, isPlaying, currentTime, duration,
                   loading, controls, announced, races, now, advances, web>>

\* a call that caches whatever its fetch came to
FetchDone_CacheFailure(c, response) ==
    /\ c \in api.pending
    /\ store' = SetCachedData(store, CacheKey(c), response.body, now)
    /\ api' = [pending |-> api.pending \ {c},
               answer |-> IF response.status = "ok"
                          THEN Answer("fetched", response.body,
                                      CacheKey(c) \in DOMAIN store.cache)
                          ELSE Answer("failed", Null, FALSE)]
    /\ raised' = ""
    /\ UNCHANGED <<audio, currentEpisode, isPlaying, currentTime, duration,
                   loading, controls, announced, races, now, advances, web>>

\* The fetch of a call in flight settles and the operation runs to its end.
FetchDone(c, response) ==
    /\ c \in api.pending
    /\ IF response.status = "ok"
       THEN /\ store' = SetCachedData(store, CacheKey(c), response.body, now)
            /\ api' = [pending |-> api.pending \ {c},
                       answer |-> Answer("fetched", response.body,
                                         CacheKey(c) \in DOMAIN store.cache)]
       ELSE /\ store' = store
            /\ api' = [pending |-> api.pending \ {c},
                       answer |-> Answer("failed", Null, FALSE)]
    /\ raised' = ""
    /\ UNCHANGED <<audio, currentEpisode, isPlaying, currentTime, duration,
                   loading, controls, announced, races, now, advances, web>>

\* clearCache
ClearCache ==
    /\ store' = ClearedStore(store)
    /\ api' = [api EXCEPT !.answer = Answer("cleared", Null, FALSE)]
    /\ raised' = ""
    /\ UNCHANGED <<audio, currentEpisode, isPlaying, currentTime, duration,
                   loading, controls, announced, races, now, advances, web>>

----------------------------------------------------------------------------
(* The feed parser (src/unnamed/part_001, parseEpisodesFromXML and the     *)
(* methods it calls).  An item of a feed is what the selectors of          *)
(* parseEpisodeItem and getImageUrl find in it: the text of its title,     *)
(* description, itunes:summary, pubDate, guid, itunes:duration and         *)
(* duration elements, its enclosure elements in document order, its        *)
(* itunes:image and its media:content of medium image.  Absent stands for  *)
(* a text element that is not there and for an attribute that is not       *)
(* there (getAttribute gives null); an image element that is not there is  *)
(* Null.  No statement of parseEpisodeItem throws on an element, so the    *)
(* catch of parseEpisodesFromXML has nothing to do in the model.           *)

MaxItems == 3

Absent == "(absent)"

\* !value, for a string or null
Falsy(v) == v = Absent \/ v = ""

\* a || b
OrElse(a, b) == IF Falsy(a) THEN b ELSE a

\* getTextContent: the trimmed text of the element, '' without one
GetTextContent(text) == IF text = Absent THEN "" ELSE Trim(text)

\* the rest of a tag that was opened: through the next ">"
RECURSIVE AfterTag(_)
AfterTag(s) ==
    IF s = "" THEN ""
    ELSE IF SubSeq(s, 1, 1) = ">" THEN SubSeq(s, 2, Len(s))
    ELSE AfterTag(SubSeq(s, 2, Len(s)))

\* textContent of a div whose innerHTML is s: "<" before a letter or "/"
\* opens a tag, which is no text
RECURSIVE TextOfHtml(_)
TextOfHtml(s) ==
    IF s = "" THEN ""
    ELSE LET rest == SubSeq(s, 2, Len(s))
         IN  IF /\ SubSeq(s, 1, 1) = "<"
                /\ rest # ""
                /\ SubSeq(rest, 1, 1) \in Letters \cup {"/"}
             THEN TextOfHtml(AfterTag(rest))
             ELSE SubSeq(s, 1, 1) \o TextOfHtml(rest)

\* stripHtml
StripHtml(html) == IF Falsy(html) THEN "" ELSE TextOfHtml(html)

DigitChars == "0123456789"

IsDigit(ch) == \E d \in 1..Len(DigitChars) : SubSeq(DigitChars, d, d) = ch

DigitValue(ch) ==
    (CHOOSE d \in 1..Len(DigitChars) : SubSeq(DigitChars, d, d) = ch) - 1

DigitAt(s, i) == i >= 1 /\ i <= Len(s) /\ IsDigit(SubSeq(s, i, i))

CharAt(s, i, ch) == i >= 1 /\ i <= Len(s) /\ SubSeq(s, i, i) = ch

\* parseInt(s, 10) of a string of digits
RECURSIVE ParseInt(_)
ParseInt(s) ==
    IF s = "" THEN 0
    ELSE ParseInt(SubSeq(s, 1, Len(s) - 1)) * 10
         + DigitValue(SubSeq(s, Len(s), Len(s)))

\* /^\d+$/
AllDigits(s) == s # "" /\ \A i \in 1..Len(s) : DigitAt(s, i)

\* the position after the digits that begin at i: what \d+ takes
RECURSIVE DigitsEnd(_, _)
DigitsEnd(s, i) == IF DigitAt(s, i) THEN DigitsEnd(s, i + 1) ELSE i

\* (\d+):(\d+) matches at i; every \d+ but the last is followed by ":", so
\* it takes all the digits there are
ShortAt(s, i) ==
    /\ DigitAt(s, i)
    /\ CharAt(s, DigitsEnd(s, i), ":")
    /\ DigitAt(s, DigitsEnd(s, i) + 1)

\* (\d+):(\d+):(\d+) matches at i
TimeAt(s, i) ==
    /\ ShortAt(s, i)
    /\ ShortAt(s, DigitsEnd(s, i) + 1)

Digits(s, i) == SubSeq(s, i, DigitsEnd(s, i) - 1)

\* the leftmost match of a pattern
First(S) == CHOOSE i \in S : \A j \in S : i <= j

\* a parseDuration that tries the short pattern before the long one
ParseDuration_ShortFirst(durationStr) ==
    IF Falsy(durationStr) THEN 0
    ELSE IF AllDigits(durationStr) THEN ParseInt(durationStr)
    ELSE LET shorts == {i \in 1..Len(durationStr) : ShortAt(durationStr, i)}
         IN  IF shorts # {}
             THEN LET m == First(shorts)
                      s == DigitsEnd(durationStr, m) + 1
                  IN  ParseInt(Digits(durationStr, m)) * 60
                      + ParseInt(Digits(durationStr, s))
             ELSE 0

\* parseDuration
ParseDuration(durationStr) ==
    IF Falsy(durationStr) THEN 0
    ELSE IF AllDigits(durationStr) THEN ParseInt(durationStr)
    ELSE LET times == {i \in 1..Len(durationStr) : TimeAt(durationStr, i)}
             shorts == {i \in 1..Len(durationStr) : ShortAt(durationStr, i)}
         IN  IF times # {}
             THEN LET h == First(times)
                      m == DigitsEnd(durationStr, h) + 1
                      s == DigitsEnd(durationStr, m) + 1
                  IN  ParseInt(Digits(durationStr, h)) * 3600
                      + ParseInt(Digits(durationStr, m)) * 60
                      + ParseInt(Digits(durationStr, s))
             ELSE IF shorts # {}
             THEN LET m == First(shorts)
                      s == DigitsEnd(durationStr, m) + 1
                  IN  ParseInt(Digits(durationStr, m)) * 60
                      + ParseInt(Digits(durationStr, s))
             ELSE 0

\* the first enclosure whose type begins with "image"
ImageEnclosures(item) ==
    SelectSeq(item.enclosures,
              LAMBDA e : e.type # Absent /\ StartsWith(e.type, "image"))

\* a getImageUrl that prefers the media:content image
GetImageUrl_MediaFirst(item) ==
    LET images == ImageEnclosures(item)
        first == IF item.mediaImage = Null THEN "" ELSE item.mediaImage.url
        second == IF ~Falsy(first) \/ item.itunesImage = Null THEN first
                  ELSE item.itunesImage.href
        third == IF ~Falsy(second) \/ images = <<>> THEN second
                 ELSE images[1].url
    IN  OrElse(third, "")

\* getImageUrl
GetImageUrl(item) ==
    LET images == ImageEnclosures(item)
        first == IF item.itunesImage = Null THEN "" ELSE item.itunesImage.href
        second == IF ~Falsy(first) \/ item.mediaImage = Null THEN first
                  ELSE item.mediaImage.url
        third == IF ~Falsy(second) \/ images = <<>> THEN second
                 ELSE images[1].url
    IN  OrElse(third, "")

\* parseEpisodeItem: the episode, or Null
ParseEpisodeItem(item) ==
    LET title == GetTextContent(item.title)
        description == OrElse(GetTextContent(item.description),
                              GetTextContent(item.summary))
        guid == GetTextContent(item.guid)
        audioUrl == IF item.enclosures # <<>> THEN item.enclosures[1].url
                    ELSE ""
        durationText == OrElse(GetTextContent(item.itunesDuration),
                               GetTextContent(item.duration))
    IN  IF Falsy(title) \/ Falsy(audioUrl) THEN Null
        ELSE [title |-> StripHtml(title),
              description |-> StripHtml(description),
              audioUrl |-> audioUrl,
              pubDate |-> GetTextContent(item.pubDate),
              duration |-> ParseDuration(durationText),
              artwork |-> GetImageUrl(item),
              guid |-> OrElse(guid, audioUrl),
              type |-> IF item.enclosures # <<>> THEN item.enclosures[1].type
                       ELSE "audio/mpeg"]

\* a loop that gives up at the first item without an episode
RECURSIVE ParsedItems_StopAtBad(_)
ParsedItems_StopAtBad(items) ==
    IF items = <<>> THEN <<>>
    ELSE IF ParseEpisodeItem(Head(items)) = Null THEN <<>>
    ELSE <<ParseEpisodeItem(Head(items))>> \o ParsedItems_StopAtBad(Tail(items))

\* the loop of parseEpisodesFromXML: the episodes in the order of the feed
RECURSIVE ParsedItems(_)
ParsedItems(items) ==
    IF items = <<>> THEN <<>>
    ELSE (IF ParseEpisodeItem(Head(items)) = Null THEN <<>>
          ELSE <<ParseEpisodeItem(Head(items))>>) \o ParsedItems(Tail(items))

\* new Date(s) for the date-only form YYYY-MM-DD: whether it is a date
LeapYear(y) == y % 4 = 0 /\ (y % 100 # 0 \/ y % 400 = 0)

DaysInMonth(y, m) ==
    IF m = 2 THEN (IF LeapYear(y) THEN 29 ELSE 28)
    ELSE IF m \in {4, 6, 9, 11} THEN 30 ELSE 31

DateOnly(s) ==
    /\ Len(s) = 10
    /\ \A i \in {1, 2, 3, 4, 6, 7, 9, 10} : DigitAt(s, i)
    /\ CharAt(s, 5, "-") /\ CharAt(s, 8, "-")

ValidDate(s) ==
    /\ DateOnly(s)
    /\ LET y == ParseInt(SubSeq(s, 1, 4))
           m == ParseInt(SubSeq(s, 6, 7))
           d == ParseInt(SubSeq(s, 9, 10))
       IN  m \in 1..12 /\ d >= 1 /\ d <= DaysInMonth(y, m)

\* the days from 0000-03-01 to the date
DayNumber(y, m, d) ==
    LET yy == IF m <= 2 THEN y - 1 ELSE y
        mm == IF m <= 2 THEN m + 9 ELSE m - 3
    IN  365 * yy + yy \div 4 - yy \div 100 + yy \div 400
        + (153 * mm + 2) \div 5 + d - 1

\* new Date(s).getTime() of a valid date, counted in days since 1970-01-01
\* (the milliseconds are 86400000 times that, too many for the arithmetic
\* of the checker)
DateValue(s) ==
    DayNumber(ParseInt(SubSeq(s, 1, 4)), ParseInt(SubSeq(s, 6, 7)),
              ParseInt(SubSeq(s, 9, 10)))
    - DayNumber(1970, 1, 1)

\* a comparison that puts the oldest first
SortCompare_Ascending(a, b) == DateValue(a.pubDate) - DateValue(b.pubDate)

\* the comparison given to sort
SortCompare(a, b) == DateValue(b.pubDate) - DateValue(a.pubDate)

\* sort is stable: e goes behind every episode that does not sort after it
RECURSIVE Inserted(_, _)
Inserted(sorted, e) ==
    IF sorted = <<>> THEN <<e>>
    ELSE IF SortCompare(Head(sorted), e) <= 0
    THEN <<Head(sorted)>> \o Inserted(Tail(sorted), e)
    ELSE <<e>> \o sorted

RECURSIVE Sorted(_)
Sorted(episodes) ==
    IF episodes = <<>> THEN <<>>
    ELSE Inserted(Sorted(SubSeq(episodes, 1, Len(episodes) - 1)),
                  episodes[Len(episodes)])

Orders(n) == {p \in [1..n -> 1..n] : \A i, j \in 1..n : p[i] = p[j] => i = j}

\* episodes.sort(...): with a date that does not parse the comparison
\* yields NaN and is no consistent comparison, so the order is the
\* implementation's
SortOutcomes(episodes) ==
    IF \A i \in 1..Len(episodes) : ValidDate(episodes[i].pubDate)
    THEN {Sorted(episodes)}
    ELSE {[i \in 1..Len(episodes) |-> episodes[p[i]]] :
              p \in Orders(Len(episodes))}

\* parseEpisodesFromXML: the lists it may return
ParseEpisodesFromXML(items) == SortOutcomes(ParsedItems(items))

----------------------------------------------------------------------------
(* getPodcastEpisodes after the await of fetch, and the feeds it is given  *)

AudioEnclosure == [url |-> "a.mp3", type |-> "audio/mpeg"]

ImageEnclosure(url) == [url |-> url, type |-> "image/png"]

\* an item with a title, a date, a duration and a typed audio enclosure
PlainItem ==
    [title |-> "t", description |-> "d", summary |-> Absent,
     pubDate |-> "2024-01-01", guid |-> "g", itunesDuration |-> "90",
     duration |-> Absent, enclosures |-> <<AudioEnclosure>>,
     itunesImage |-> Null, mediaImage |-> Null]

TitleTexts == {Absent, "", " ", " t ", "<b>t</b>", "<b></b>", "a<b"}

EnclosureLists ==
    {<<>>,
     <<[url |-> "a.mp3", type |-> Absent]>>,
     <<[url |-> Absent, type |-> "audio/mpeg"]>>,
     <<[url |-> "", type |-> "audio/mpeg"]>>,
     <<ImageEnclosure("e.png")>>,
     <<ImageEnclosure("e.png"), AudioEnclosure>>,
     <<AudioEnclosure, AudioEnclosure>>}

DurationTexts ==
    {"", "90", "007", "2:05", "1:02:03", "garbage", "1:02:03:04", "x2:05",
     "2:75", ":5", "5:", "1::2", "12:3", "1.5"}

ImageLinks == {Null, [href |-> Absent], [href |-> ""], [href |-> "i.png"]}

MediaImages == {Null, [url |-> Absent], [url |-> ""], [url |-> "m.png"]}

ImageEnclosureLists ==
    {<<AudioEnclosure>>} \cup
    {<<AudioEnclosure, ImageEnclosure(u)>> : u \in {Absent, "", "e.png"}}

\* items that differ from the plain one in what one method looks at
Items ==
    {[PlainItem EXCEPT !.title = t] : t \in TitleTexts}
    \cup {[PlainItem EXCEPT !.enclosures = es] : es \in EnclosureLists}
    \cup {[PlainItem EXCEPT !.itunesDuration = a, !.duration = b] :
              a \in DurationTexts \cup {Absent}, b \in {Absent, "2:05"}}
    \cup {[PlainItem EXCEPT !.itunesImage = i, !.mediaImage = m,
                            !.enclosures = es] :
              i \in ImageLinks, m \in MediaImages, es \in ImageEnclosureLists}
    \cup {[PlainItem EXCEPT !.guid = Absent, !.description = Absent,
                            !.summary = "<i>s</i>"]}

\* the items of the longer feeds: three dates, a date that comes twice, a
\* date that does not parse, and an item without an audio locator
DatedItems ==
    {[PlainItem EXCEPT !.guid = "g1", !.pubDate = "2024-01-01"],
     [PlainItem EXCEPT !.guid = "g2", !.pubDate = "2024-02-01"],
     [PlainItem EXCEPT !.guid = "g3", !.pubDate = "2024-03-01"],
     [PlainItem EXCEPT !.guid = "g4", !.pubDate = "2024-02-01"],
     [PlainItem EXCEPT !.guid = "g5", !.pubDate = "garbage"],
     [PlainItem EXCEPT !.guid = "g6", !.pubDate = "2024-03-01",
                       !.enclosures = <<>>]}

Sequences(S, n) == UNION {[1..k -> S] : k \in 0..n}

Documents == {<<item>> : item \in Items} \cup Sequences(DatedItems, MaxItems)

\* messages of the TypeError a rejected fetch carries
RejectMessages ==
    {"Failed to fetch", "Load failed", "CORS request did not succeed",
     "The request was blocked", "cors error"}

HttpStatuses == {404, 500}

\* what the fetch of a feed comes to: it is rejected, it is answered with a
\* status that is not OK, or it is answered with a text that is well-formed
\* XML with these items, or is not
Feeds ==
    {[kind |-> "rejected", message |-> m] : m \in RejectMessages}
    \cup {[kind |-> "status", status |-> s] : s \in HttpStatuses}
    \cup {[kind |-> "text", wellFormed |-> FALSE, items |-> <<>>]}
    \cup {[kind |-> "text", wellFormed |-> TRUE, items |-> d] : d \in Documents}

FeedCalls == {c \in Calls : c.op = "episodes"}

Includes(s, part) ==
    \E i \in 1..(Len(s) - Len(part) + 1) : SubSeq(s, i, i + Len(part) - 1) = part

\* parseXMLFromString: the document, or Null when the parser reports an error
ParseXMLFromString(text) ==
    IF text.wellFormed THEN [items |-> text.items] ELSE Null

\* the message of the error that reaches the catch of getPodcastEpisodes,
\* "" when there is none
Caught(feed) ==
    CASE feed.kind = "rejected" -> feed.message
      [] feed.kind = "status" -> "HTTP error! status: " \o ToString(feed.status)
      [] OTHER -> IF ParseXMLFromString(feed) = Null
                  THEN "Failed to parse RSS feed" ELSE ""

CorsMessage ==
    "Unable to load episodes due to CORS restrictions. This podcast may not support direct streaming."

EpisodesFailedMessage == "Failed to load episodes. Please try again later."

\* a test that looks for CORS only
LooksCrossOrigin_CorsOnly(message) == Includes(message, "CORS")

\* the test of the catch
LooksCrossOrigin(message) ==
    Includes(message, "CORS") \/ Includes(message, "blocked")

\* The fetch of a getPodcastEpisodes call in flight settles and the
\* operation runs to its end.
EpisodesDone(c) ==
    /\ c \in api.pending /\ c.op = "episodes"
    /\ IF Caught(web) # ""
       THEN /\ store' = store
            /\ api' = [pending |-> api.pending \ {c},
                       answer |-> Answer("failed", Null, FALSE)]
            /\ raised' = IF LooksCrossOrigin(Caught(web)) THEN CorsMessage
                         ELSE EpisodesFailedMessage
       ELSE \E episodes \in ParseEpisodesFromXML(ParseXMLFromString(web).items) :
                /\ store' = SetCachedData(store, CacheKey(c),
                                          [items |-> episodes], now)
                /\ api' = [pending |-> api.pending \ {c},
                           answer |-> Answer("fetched", [items |-> episodes],
                                             CacheKey(c) \in DOMAIN store.cache)]
                /\ raised' = ""
    /\ UNCHANGED <<audio, currentEpisode, isPlaying, currentTime, duration,
                   loading, controls, announced, races, now, advances, web>>

----------------------------------------------------------------------------
(* The whole program *)

SeekInputs == {0, 50, 100}

Next ==
    \/ \E e \in LoadArguments, autoPlay \in BOOLEAN, allowed \in BOOLEAN :
           LoadEpisode(e, autoPlay, allowed)
    \/ \E allowed \in BOOLEAN : Play(allowed)
    \/ Pause
    \/ \E allowed \in BOOLEAN : TogglePlayPause(allowed)
    \/ SkipBack(SkipBackDefault)
    \/ SkipForward(SkipForwardDefault)
    \/ \E p \in SeekInputs : Seek(p)
    \/ Destroy
    \/ MediaProgress
    \/ MediaTick
    \/ MediaEnd
    \/ \E code \in MediaErrorCodes : MediaFail(code)
    \/ \E allowed \in BOOLEAN : Deliver(allowed)
    \/ \E more \in BOOLEAN : PlayResolved(more)
    \/ \E more \in BOOLEAN : PlayRejected(more)
    \/ \E i \in 1..MaxRaces, allowed \in BOOLEAN : PollTick(i, allowed)
    \/ \E i \in 1..MaxRaces : TimeoutFire(i)
    \/ \E d \in ClockSteps \cup CacheClockSteps : Advance(d)
    \/ Restart
    \/ \E c \in Calls : CatalogCall(c)
    \/ \E c \in Calls, response \in Responses : FetchDone(c, response)
    \/ ClearCache
    \/ \E c \in FeedCalls : EpisodesDone(c)
    \/ \E e \in LoadArguments : PlayEpisode(e)
    \/ MediaStall

Spec == Init /\ [][Next]_vars

----------------------------------------------------------------------------
(* Parts of the program.  Each leaves out operations and inputs that the   *)
(* claims checked under it do not depend on.  The two episodes differ in   *)
(* name only, and the parts call the first one that is loaded A.           *)

InOrder(e) == e = EpisodeB => store.currentEpisode # Null

\* The readiness protocol: episodes are loaded with and without autoPlay;
\* the position of the medium does not move, and a failing element fails
\* with a network error.
NextRace ==
    \/ \E e \in ValidEpisodes, autoPlay \in BOOLEAN, allowed \in BOOLEAN :
           InOrder(e) /\ LoadEpisode(e, autoPlay, allowed)
    \/ \E allowed \in BOOLEAN : Play(allowed)
    \/ Pause
    \/ \E allowed \in BOOLEAN : TogglePlayPause(allowed)
    \/ Destroy
    \/ MediaProgress
    \/ MediaFail(2)
    \/ \E allowed \in BOOLEAN : Deliver(allowed)
    \/ \E more \in BOOLEAN : PlayResolved(more)
    \/ \E more \in BOOLEAN : PlayRejected(more)
    \/ \E i \in 1..MaxRaces, allowed \in BOOLEAN : PollTick(i, allowed)
    \/ \E i \in 1..MaxRaces : TimeoutFire(i)

SpecRace == Init /\ [][NextRace]_vars

\* A session of playback: episodes are loaded without autoPlay.
NextSession ==
    \/ \E e \in ValidEpisodes, allowed \in BOOLEAN :
           InOrder(e) /\ LoadEpisode(e, FALSE, allowed)
    \/ \E allowed \in BOOLEAN : Play(allowed)
    \/ Pause
    \/ \E allowed \in BOOLEAN : TogglePlayPause(allowed)
    \/ SkipBack(SkipBackDefault)
    \/ SkipForward(SkipForwardDefault)
    \/ \E p \in SeekInputs : Seek(p)
    \/ Destroy
    \/ MediaProgress
    \/ MediaTick
    \/ MediaEnd
    \/ MediaFail(4)
    \/ \E allowed \in BOOLEAN : Deliver(allowed)
    \/ \E more \in BOOLEAN : PlayResolved(more)
    \/ \E more \in BOOLEAN : PlayRejected(more)

SpecSession == Init /\ [][NextSession]_vars

\* loadEpisode is called with and without an episode, with an episode that
\* has no audio locator, with and without autoPlay; the element lets every
\* play() through.
NextInvalid ==
    \/ \E e \in LoadArguments, autoPlay \in BOOLEAN :
           InOrder(e) /\ LoadEpisode(e, autoPlay, TRUE)
    \/ Play(TRUE)
    \/ Pause
    \/ MediaProgress
    \/ MediaTick
    \/ Deliver(TRUE)
    \/ PlayResolved(FALSE)
    \/ \E i \in 1..MaxRaces : PollTick(i, TRUE)

SpecInvalid == Init /\ [][NextInvalid]_vars

\* Sessions over days: episodes are loaded and played, time passes and the
\* page is opened again.
NextBoot ==
    \/ \E e \in ValidEpisodes : InOrder(e) /\ LoadEpisode(e, FALSE, TRUE)
    \/ Play(TRUE)
    \/ SkipBack(SkipBackDefault)
    \/ SkipForward(SkipForwardDefault)
    \/ MediaProgress
    \/ MediaTick
    \/ Deliver(TRUE)
    \/ \E d \in ClockSteps : Advance(d)
    \/ Restart

SpecBoot == Init /\ [][NextBoot]_vars

\* The catalog and its cache, on a visit after episode A was played.
SavedStore ==
    [currentEpisode |-> [episode |-> EpisodeA, timestamp |-> 0],
     playbackPosition |->
         [episodeGuid |-> EpisodeA.guid, position |-> PlayStep, timestamp |-> 0],
     cache |-> [k \in {} |-> Null]]

InitCache ==
    /\ store = SavedStore
    /\ now = 0
    /\ advances = 0
    /\ api = FreshApi
    /\ web = NoFeed
    /\ audio = ConstructedAudio(store, 0)
    /\ currentEpisode = SavedEpisode(store, 0)
    /\ isPlaying = FALSE
    /\ currentTime = 0
    /\ duration = 0
    /\ loading = FALSE
    /\ controls = InitialControls
    /\ announced = ""
    /\ races = <<>>
    /\ raised = ""

NextCache ==
    \/ \E c \in Calls : CatalogCall(c)
    \/ \E c \in Calls, response \in Responses : FetchDone(c, response)
    \/ ClearCache
    \/ \E d \in CacheClockSteps : Advance(d)

SpecCache == InitCache /\ [][NextCache]_vars

\* The episodes of a feed are asked for, on a visit after episode A was
\* played.
InitFeed ==
    /\ web \in Feeds
    /\ store = SavedStore
    /\ now = 0
    /\ advances = 0
    /\ api = FreshApi
    /\ audio = ConstructedAudio(store, 0)
    /\ currentEpisode = SavedEpisode(store, 0)
    /\ isPlaying = FALSE
    /\ currentTime = 0
    /\ duration = 0
    /\ loading = FALSE
    /\ controls = InitialControls
    /\ announced = ""
    /\ races = <<>>
    /\ raised = ""

NextFeed ==
    \/ \E c \in FeedCalls : CatalogCall(c)
    \/ \E c \in FeedCalls : EpisodesDone(c)
    \/ ClearCache

SpecFeed == InitFeed /\ [][NextFeed]_vars

\* Loading and playing: episodes are loaded with and without autoPlay and
\* played; the element lets every play() through, and its promise is
\* settled before the next call.
NextLoading ==
    \/ \E e \in ValidEpisodes, autoPlay \in BOOLEAN :
           InOrder(e) /\ LoadEpisode(e, autoPlay, TRUE)
    \/ Play(TRUE)
    \/ Pause
    \/ MediaProgress
    \/ MediaFail(2)
    \/ Deliver(TRUE)
    \/ PlayResolved(FALSE)
    \/ PlayRejected(FALSE)
    \/ \E i \in 1..MaxRaces : PollTick(i, TRUE)
    \/ \E i \in 1..MaxRaces : TimeoutFire(i)

SpecLoading == Init /\ [][NextLoading]_vars

\* An episode of the list is selected and the play button is left alone:
\* the element loads the medium and the event loop runs its tasks.
NextSelect ==
    \/ \E e \in ValidEpisodes : InOrder(e) /\ PlayEpisode(e)
    \/ SkipBack(SkipBackDefault)
    \/ SkipForward(SkipForwardDefault)
    \/ \E p \in SeekInputs : Seek(p)
    \/ MediaProgress
    \/ \E allowed \in BOOLEAN : Deliver(allowed)

\* the element goes on loading, and a queued task is run
FairSelect ==
    /\ WF_vars(MediaProgress)
    /\ WF_vars(\E allowed \in BOOLEAN : Deliver(allowed))

SpecSelect == Init /\ [][NextSelect]_vars /\ FairSelect

\* One episode over another: A is loaded with autoPlay and B without, so
\* every readiness race belongs to a load of A; the element lets every
\* play() through.
NextSupersede ==
    \/ LoadEpisode(EpisodeA, TRUE, TRUE)
    \/ InOrder(EpisodeB) /\ LoadEpisode(EpisodeB, FALSE, TRUE)
    \/ MediaProgress
    \/ Deliver(TRUE)
    \/ PlayResolved(FALSE)
    \/ \E i \in 1..MaxRaces : PollTick(i, TRUE)
    \/ \E i \in 1..MaxRaces : TimeoutFire(i)

SpecSupersede == Init /\ [][NextSupersede]_vars

\* Episodes are loaded with autoPlay and left to the readiness race: the
\* medium arrives, playback may run out of data, the player may be
\* destroyed; the element lets every play() through.
NextAutoPlay ==
    \/ \E e \in ValidEpisodes : InOrder(e) /\ LoadEpisode(e, TRUE, TRUE)
    \/ Destroy
    \/ MediaProgress
    \/ MediaStall
    \/ Deliver(TRUE)
    \/ PlayResolved(FALSE)
    \/ \E i \in 1..MaxRaces : PollTick(i, TRUE)
    \/ \E i \in 1..MaxRaces : TimeoutFire(i)

\* a queued task is run, and a timer that is due runs its callback
FairAutoPlay ==
    /\ WF_vars(Deliver(TRUE))
    /\ \A i \in 1..MaxRaces : WF_vars(PollTick(i, TRUE))

SpecAutoPlay == Init /\ [][NextAutoPlay]_vars /\ FairAutoPlay

----------------------------------------------------------------------------
(* Claims *)

OtherThanRaised ==
    <<audio, currentEpisode, isPlaying, currentTime, duration, loading,
      controls, announced, races, store, now, advances, api, web>>

\* C1 (SpecRace): in every interleaving of poll ticks, canplay events and
\* the timeout, a readiness race calls play() at most once.
C1_PlayAtMostOnce == \A i \in DOMAIN races : races[i].plays <= 1

\* C2 (SpecRace): when the 10 second timer of a race fires and the element
\* has never been ready since the race began, the engine leaves Loading,
\* the loading timeout is announced and the race has never called play().
C2_TimeoutLeavesLoading ==
    [][\A i \in DOMAIN races :
          (/\ i \in DOMAIN races'
           /\ races[i].timeout /\ ~races'[i].timeout
           /\ ~races[i].ready)
          => (/\ ~loading'
              /\ announced' = TimeoutMessage
              /\ races'[i].timedOut
              /\ races'[i].plays = 0)]_vars

C2_Witness ==
    \E i \in DOMAIN races :
        /\ races[i].timedOut /\ ~races[i].ready /\ races[i].plays = 0
        /\ ~loading /\ announced = TimeoutMessage

\* C3 (SpecRace): once a race has reported the loading timeout, no later
\* step makes it call play().
C3_NoPlayAfterTimeout ==
    [][\A i \in DOMAIN races :
          (i \in DOMAIN races' /\ races[i].timedOut)
          => races'[i].plays = races[i].plays]_vars

\* C4 (SpecLoading): a loadEpisode(B) over a loaded episode leaves B as the
\* current episode, B's locator as the media source and B as the persisted
\* CurrentEpisode, and the element is paused when the source is assigned.
C4_SecondLoadSupersedes ==
    [][\A e \in ValidEpisodes :
          (/\ currentEpisode \in ValidEpisodes
           /\ \E autoPlay \in BOOLEAN, allowed \in BOOLEAN :
                  LoadEpisode(e, autoPlay, allowed))
          => (/\ currentEpisode' = e
              /\ audio'.src = e.audioUrl
              /\ store'.currentEpisode.episode = e
              /\ BeforeSource(audio).paused
              /\ audio'.paused)]_vars

C4_Witness ==
    /\ currentEpisode = EpisodeB
    /\ audio.src = "b.mp3" /\ audio.paused /\ audio.readyState = 0
    /\ store.currentEpisode.episode = EpisodeB
    /\ ~isPlaying
    /\ \E i \in DOMAIN races : races[i].plays = 0 /\ races[i].poll

\* C5 (SpecInvalid): loadEpisode with no episode or with an episode without
\* audio locator raises the invalid-episode error, and a step that raises it
\* changes nothing else and starts no race.
C5_InvalidEpisodeChangesNothing ==
    [][/\ \A e \in {Null, EpisodeNoAudio}, autoPlay \in BOOLEAN :
              LoadEpisode(e, autoPlay, TRUE) => raised' = "Invalid episode data"
       /\ raised' = "Invalid episode data" => UNCHANGED OtherThanRaised]_vars

C5_Witness ==
    /\ raised = "Invalid episode data"
    /\ currentEpisode = EpisodeA /\ audio.src = "a.mp3" /\ loading
    /\ store.currentEpisode # Null

\* C6 as claimed (SpecSession): after a successful loadEpisode the element
\* is paused at position 0 with the episode's source, the engine's last
\* known position is 0, the engine is in Loading and the persisted
\* CurrentEpisode is the episode with the current timestamp.
C6_Original ==
    [][\A e \in ValidEpisodes :
          LoadEpisode(e, FALSE, TRUE)
          => (/\ audio'.paused /\ audio'.currentTime = 0
              /\ currentTime' = 0
              /\ loading'
              /\ audio'.src = e.audioUrl
              /\ store'.currentEpisode = [episode |-> e, timestamp |-> now])]_vars

\* C6 as amended (SpecSession): the same, but the engine's last known
\* position keeps its value.
C6_LoadResetsMedia ==
    [][\A e \in ValidEpisodes :
          LoadEpisode(e, FALSE, TRUE)
          => (/\ audio'.paused /\ audio'.currentTime = 0
              /\ currentTime' = currentTime
              /\ loading'
              /\ audio'.src = e.audioUrl
              /\ store'.currentEpisode = [episode |-> e, timestamp |-> now])]_vars

C6_Witness ==
    /\ currentEpisode \in ValidEpisodes
    /\ audio.src = currentEpisode.audioUrl
    /\ audio.queue = <<"loadstart">> /\ audio.readyState = 0
    /\ audio.paused /\ audio.currentTime = 0 /\ loading
    /\ currentTime > 0
    /\ store.currentEpisode.episode = currentEpisode

\* C7 (SpecSession): play() without an episode leaves the element alone;
\* with an episode it asks the element to start; a rejected request leaves
\* the engine not playing and not Loading, with the failure announced.
C7_PlayContract ==
    [][/\ \A allowed \in BOOLEAN :
              Play(allowed)
              => IF currentEpisode = Null THEN audio' = audio
                 ELSE audio'.promises /\ (allowed => ~audio'.paused)
       /\ \A more \in BOOLEAN :
              PlayRejected(more)
              => ~isPlaying' /\ ~loading' /\ announced' \in ErrorMessages]_vars

C7_Witness ==
    /\ announced = "play rejected"
    /\ currentEpisode # Null /\ ~isPlaying /\ ~loading

\* The engine shows an error: not playing, not Loading, the error announced.
InError == ~isPlaying /\ ~loading /\ announced \in ErrorMessages

\* a step of the media element, of a timer or of a play() promise
AutomaticStep ==
    \/ MediaProgress
    \/ MediaFail(2)
    \/ \E allowed \in BOOLEAN : Deliver(allowed)
    \/ \E more \in BOOLEAN : PlayResolved(more)
    \/ \E more \in BOOLEAN : PlayRejected(more)
    \/ \E i \in DOMAIN races, allowed \in BOOLEAN : PollTick(i, allowed)
    \/ \E i \in DOMAIN races : TimeoutFire(i)

LoadStep ==
    \E e \in ValidEpisodes, autoPlay \in BOOLEAN, allowed \in BOOLEAN :
        LoadEpisode(e, autoPlay, allowed)

\* C8 (SpecRace): the engine stays in Error under every media event, timer
\* and settled play() until the next loadEpisode, and a loadEpisode from
\* Error puts it in Loading.
C8_StaysInError ==
    [][/\ (InError /\ AutomaticStep) => InError'
       /\ (InError /\ LoadStep) => loading']_vars

\* C9 (SpecBoot): at construction a persisted CurrentEpisode of 24 hours or
\* more is ignored, no episode is loaded and no position restored; a younger
\* one becomes the loaded episode and the element is not asked to play.
C9_StaleEpisodeIgnored ==
    [][Restart =>
          IF store.currentEpisode = Null THEN currentEpisode' = Null
          ELSE IF now - store.currentEpisode.timestamp >= StaleAge
               THEN currentEpisode' = Null /\ audio' = FreshAudio
               ELSE /\ currentEpisode' = store.currentEpisode.episode
                    /\ audio'.paused /\ ~audio'.promises
                    /\ audio'.queue = <<>>]_vars

C9_Witness ==
    /\ store.currentEpisode # Null
    /\ now - store.currentEpisode.timestamp >= StaleAge
    /\ currentEpisode = Null /\ audio = FreshAudio

\* the condition of C10, read from the store
SeekExpected ==
    IF store.currentEpisode = Null \/ store.playbackPosition = Null THEN FALSE
    ELSE /\ now - store.currentEpisode.timestamp < StaleAge
         /\ store.playbackPosition.episodeGuid = store.currentEpisode.episode.guid
         /\ now - store.playbackPosition.timestamp < StaleAge
         /\ store.playbackPosition.position > 0

\* C10 (SpecBoot): at construction the element is sought to the persisted
\* position exactly when a CurrentEpisode younger than 24 hours is restored,
\* the position record has its guid, is younger than 24 hours and holds a
\* position above 0; otherwise the element's position is untouched.
C10_PositionRestoredIff ==
    [][Restart =>
          IF SeekExpected
          THEN audio'.currentTime = store.playbackPosition.position
          ELSE audio' = FreshAudio]_vars

C10_Witness ==
    /\ currentEpisode # Null /\ audio.src = ""
    /\ audio.currentTime > 0
    /\ audio.currentTime = store.playbackPosition.position

\* the handler of a timeupdate event runs
TimeUpdateStep ==
    /\ audio.queue # <<>>
    /\ Head(audio.queue) = "timeupdate"
    /\ \E allowed \in BOOLEAN : Deliver(allowed)

\* the PlaybackPosition record is written for the loaded episode, from the
\* position of the element, exactly when that position is above 0
PositionWritten ==
    IF currentEpisode # Null /\ audio.currentTime > 0
    THEN /\ store'.playbackPosition =
                [episodeGuid |-> currentEpisode.guid,
                 position |-> audio.currentTime, timestamp |-> now]
         /\ store'.currentEpisode = store.currentEpisode
    ELSE store' = store

\* C11 as claimed (SpecSession): every timeupdate event refreshes the
\* engine's position from the element, and writes the PlaybackPosition
\* record only if the position is above 0 and an episode is loaded.
C11_Original ==
    [][TimeUpdateStep
       => (currentTime' = audio.currentTime /\ PositionWritten)]_vars

\* C11 as amended (SpecSession): the same for a timeupdate event that finds
\* a known, non-zero duration; an event that finds none is ignored.
C11_TimeUpdatePersists ==
    [][TimeUpdateStep
       => IF audio.duration = 0
          THEN currentTime' = currentTime /\ store' = store
          ELSE currentTime' = audio.currentTime /\ PositionWritten]_vars

C11_Witness ==
    /\ currentEpisode # Null /\ currentTime > 0
    /\ currentTime = audio.currentTime
    /\ store.playbackPosition # Null
    /\ store.playbackPosition.position = currentTime
    /\ store.playbackPosition.episodeGuid = currentEpisode.guid

\* C12 (SpecBoot): skipBack and skipForward leave the element alone without
\* an episode; otherwise skipForward never sets a position above the
\* element's duration (0 when unknown) nor below 0, and skipBack never sets
\* one below 0 nor above the position it started from.
C12_SkipWithinBounds ==
    [][/\ SkipForward(SkipForwardDefault)
          => IF currentEpisode = Null THEN audio' = audio
             ELSE 0 <= audio'.currentTime
                  /\ audio'.currentTime <= audio.duration
       /\ SkipBack(SkipBackDefault)
          => IF currentEpisode = Null THEN audio' = audio
             ELSE 0 <= audio'.currentTime
                  /\ audio'.currentTime <= audio.currentTime
                  /\ (audio.duration # 0
                      => audio'.currentTime <= audio.duration)]_vars

\* a skip forward has stopped at the end of the medium and a skip back
\* from there is still to come
C12_Witness ==
    /\ currentEpisode # Null
    /\ audio.duration > 0 /\ audio.currentTime = audio.duration
    /\ audio.paused /\ audio.queue = <<"timeupdate">>

\* C13 (SpecSession): seek(percentage) leaves the element alone without an
\* episode or with an unknown duration; otherwise it sets the position to
\* percentage / 100 * duration.
C13_SeekSetsFraction ==
    [][\A p \in SeekInputs :
          Seek(p)
          => IF currentEpisode = Null \/ audio.duration = 0
             THEN audio' = audio
             ELSE 100 * audio'.currentTime = p * audio.duration]_vars

C13_Witness ==
    /\ currentEpisode # Null /\ audio.paused
    /\ audio.duration > 0 /\ 2 * audio.currentTime = audio.duration
    /\ audio.queue = <<"timeupdate">>

\* C14 (SpecSession): togglePlayPause leaves the element alone without an
\* episode; otherwise it asks a paused element to play and a playing one to
\* pause, whatever the cached playing flag says.
C14_ToggleFollowsElement ==
    [][\A allowed \in BOOLEAN :
          TogglePlayPause(allowed)
          => IF currentEpisode = Null THEN audio' = audio
             ELSE IF audio.paused THEN audio' = AudioPlay(audio, allowed)
             ELSE audio' = AudioPause(audio)]_vars

\* the element plays on a request made while the flag still said playing
C14_Witness ==
    /\ currentEpisode # Null /\ isPlaying
    /\ ~audio.paused /\ audio.promises
    /\ audio.queue = <<"pause", "play">>

TransportStep ==
    \/ \E allowed \in BOOLEAN : Play(allowed)
    \/ \E allowed \in BOOLEAN : TogglePlayPause(allowed)
    \/ SkipBack(SkipBackDefault)
    \/ SkipForward(SkipForwardDefault)
    \/ \E p \in SeekInputs : Seek(p)

\* C16 (SpecSession): destroy() leaves the element paused and no episode
\* loaded, and with no episode loaded no transport operation changes the
\* element.
C16_DestroyDisablesTransport ==
    [][/\ Destroy => audio'.paused /\ currentEpisode' = Null
       /\ (currentEpisode = Null /\ TransportStep) => audio' = audio]_vars

C16_Witness ==
    /\ currentEpisode = Null /\ audio.src # "" /\ audio.paused
    /\ audio.currentTime > 0 /\ store.currentEpisode # Null

\* the call gets as far as the lookup in the cache
Looked(c) == ArgumentValid(c) /\ ~KeyFails(c)

Fetched(v) == [status |-> "ok", body |-> v]

\* the maxAge the catalog calls are said to use, in milliseconds
ClaimedMaxAge(op) ==
    CASE op = "search" -> 15 * 60 * 1000
      [] op = "popular" -> 60 * 60 * 1000
      [] OTHER -> 30 * 60 * 1000

\* C17 (SpecCache): a lookup of an entry whose age is maxAge or more (15
\* min for search, 30 min for lookup and episode list, 60 min for popular)
\* returns nothing and deletes the entry; a lookup of a younger entry
\* returns its value and leaves the store as it was.
C17_ExpiresAtMaxAge ==
    [][\A c \in Calls :
          (Looked(c) /\ CatalogCall(c))
          => LET key == CacheKey(c)
                 entry == CacheEntry(store, key)
             IN  IF entry = Null THEN TRUE
                 ELSE IF now - entry.timestamp >= ClaimedMaxAge(c.op)
                 THEN /\ api'.answer.kind # "hit"
                      /\ key \notin DOMAIN store'.cache
                 ELSE /\ api'.answer.kind = "hit"
                      /\ api'.answer.value = entry.value
                      /\ store' = store]_vars

\* C18 (SpecCache): the write that ends a successful call stores the value
\* with the current timestamp under the key, over any entry that was there,
\* and a lookup made less than maxAge later returns that value and leaves
\* the entry in place.
C18_SetOverwrites ==
    [][\A c \in Calls, v \in Results :
          FetchDone(c, Fetched(v))
          => LET key == CacheKey(c)
                 maxAge == MaxAgeOf(c.op)
             IN  /\ key \in DOMAIN store'.cache
                 /\ store'.cache[key] = [value |-> v, timestamp |-> now]
                 /\ \A d \in {0, 1, maxAge - 1} :
                       /\ CachedValue(store', key, maxAge, now + d) = v
                       /\ StoreAfterGet(store', key, maxAge, now + d) = store']_vars

\* a later write has replaced an earlier entry
C18_Witness ==
    /\ api.answer.kind = "fetched" /\ api.answer.replaced
    /\ \E key \in DOMAIN store.cache :
          store.cache[key] = [value |-> api.answer.value, timestamp |-> now]
    /\ now > 0

\* C19 (SpecCache): clearCache removes the entries whose key starts with
\* search_, podcast_ or episodes_ and leaves every other key as it was,
\* the records currentEpisode and playbackPosition among them.
C19_ClearLeavesOthers ==
    [][ClearCache
       => /\ store'.currentEpisode = store.currentEpisode
          /\ store'.playbackPosition = store.playbackPosition
          /\ DOMAIN store'.cache =
                {k \in DOMAIN store.cache :
                    ~(\/ StartsWith(k, "search_")
                      \/ StartsWith(k, "podcast_")
                      \/ StartsWith(k, "episodes_"))}
          /\ \A k \in DOMAIN store'.cache : store'.cache[k] = store.cache[k]]_vars

C19_Witness ==
    /\ api.answer.kind = "cleared"
    /\ store.currentEpisode # Null /\ store.playbackPosition # Null
    /\ DOMAIN store.cache = {"popular__20"}

\* C20 (SpecCache): a catalog call that finds an entry younger than its
\* maxAge under its key returns the entry's value and sends no request; one
\* that finds no entry sends the request; and a successful request stores
\* its result under that key, so that the same lookup returns it until
\* maxAge has passed.
C20_ValidEntryShortCircuits ==
    [][\A c \in Calls :
          LET key == CacheKey(c)
              maxAge == ClaimedMaxAge(c.op)
              entry == CacheEntry(store, key)
          IN  /\ (/\ api'.answer.kind \in {"hit", "fetching"}
                  /\ Looked(c)
                  /\ CatalogCall(c))
                 => IF entry = Null
                    THEN /\ api'.pending = api.pending \cup {c}
                         /\ api'.answer.kind = "fetching"
                    ELSE IF now - entry.timestamp < maxAge
                    THEN /\ api'.answer.kind = "hit"
                         /\ api'.answer.value = entry.value
                         /\ api'.pending = api.pending
                         /\ store' = store
                    ELSE TRUE
              /\ (/\ api'.answer.kind = "fetched"
                  /\ c \in api.pending
                  /\ FetchDone(c, Fetched(api'.answer.value)))
                 => /\ CacheEntry(store', key) =
                          [value |-> api'.answer.value, timestamp |-> now]
                    /\ \A d \in {0, maxAge - 1} :
                          CachedValue(store', key, maxAge, now + d)
                             = api'.answer.value]_vars

\* an answer from the cache some time after the entry was written
C20_Witness ==
    /\ api.answer.kind = "hit" /\ api.pending = {}
    /\ \E key \in DOMAIN store.cache :
          /\ store.cache[key].value = api.answer.value
          /\ store.cache[key].timestamp < now

\* C30 (SpecLoading): the handler of loadstart and of waiting sets the
\* loading state, the handler of loadedmetadata, of canplaythrough and of
\* error clears it, and in every state each transport control is disabled
\* exactly when the loading state is set.
C30_ControlsFollowLoading ==
    /\ [](\A c \in Controls : controls[c] = loading)
    /\ [][(\E allowed \in BOOLEAN : Deliver(allowed))
          => LET ev == Head(audio.queue)
             IN  /\ ev \in {"loadstart", "waiting"} => loading'
                 /\ ev \in {"loadedmetadata", "canplaythrough", "error"}
                       => ~loading']_vars

\* the element waits for data while it plays an episode of known duration
C30_Witness ==
    /\ loading /\ \A c \in Controls : controls[c]
    /\ isPlaying /\ duration > 0 /\ ~audio.paused

\* C29 (SpecSelect): once an episode of the list is selected, play() is
\* eventually called on the media element without any further action of
\* the user.
C29_SelectStartsPlayback ==
    (currentEpisode # Null) ~> (audio.promises \/ ~audio.paused)

\* the episodes a getPodcastEpisodes call has just fetched and returned
Returned == api.answer.value.items

FetchedFeed == api.answer.kind = "fetched" /\ web.kind = "text"

\* the feed has one item, and the call returned its episode
FetchedItem == FetchedFeed /\ Len(web.items) = 1 /\ Len(Returned) = 1

\* C21 (SpecFeed): every episode of a returned list has a title and an
\* audioUrl that are not empty.
C21_TitleAndAudioNotEmpty ==
    FetchedFeed
    => \A i \in DOMAIN Returned :
          Returned[i].title # "" /\ Returned[i].audioUrl # ""

\* an item with a title and with an audio locator
ValidItem(item) ==
    /\ ~Falsy(GetTextContent(item.title))
    /\ IF item.enclosures = <<>> THEN FALSE
       ELSE ~Falsy(item.enclosures[1].url)

\* C22 (SpecFeed): the returned list holds one episode for every item of
\* the feed that has a title and an audio locator, and nothing else,
\* wherever the other items stand in the feed.
C22_ItemsIndependent ==
    FetchedFeed
    => LET valid == SelectSeq(web.items, ValidItem)
       IN  /\ Len(Returned) = Len(valid)
           /\ \E p \in Orders(Len(valid)) :
                 \A i \in 1..Len(valid) :
                    Returned[i] = ParseEpisodeItem(valid[p[i]])

\* an item without an audio locator stood between two others
C22_Witness ==
    /\ FetchedFeed /\ Len(web.items) = 3 /\ Len(Returned) = 2
    /\ web.items[2].enclosures = <<>>
    /\ ValidItem(web.items[1]) /\ ValidItem(web.items[3])

\* C23 (SpecFeed): when the text of the feed is not well-formed XML the
\* call returns the empty list and raises nothing.
C23_MalformedGivesEmptyList ==
    (web.kind = "text" /\ api.answer.kind \in {"fetched", "failed"})
    => IF web.wellFormed THEN TRUE
       ELSE /\ api.answer.kind = "fetched"
            /\ Returned = <<>>
            /\ raised = ""

\* a colon stands at position i of s
Joined(s, i) == CharAt(s, i, ":")

\* C24 (SpecFeed): the duration of an episode is a natural number: the
\* number a text of digits spells, H*3600+MM*60+SS for H:MM:SS, MM*60+SS
\* for MM:SS, and 0 for an empty text and for a text that is not all
\* digits and holds no digit, colon, digit in a row; so 3723 for
\* "1:02:03", 125 for "2:05", 90 for "90", 0 for "" and "garbage".
C24_ParseDuration ==
    FetchedItem
    => LET text == OrElse(GetTextContent(web.items[1].itunesDuration),
                          GetTextContent(web.items[1].duration))
           got == Returned[1].duration
           n == Len(text)
       IN  /\ got \in Nat
           /\ text = "1:02:03" => got = 3723
           /\ text = "2:05" => got = 125
           /\ text = "90" => got = 90
           /\ text \in {"", "garbage"} => got = 0
           /\ AllDigits(text) => got = ParseInt(text)
           /\ \A i, j \in 1..n :
                 (/\ i < j /\ Joined(text, i) /\ Joined(text, j)
                  /\ AllDigits(SubSeq(text, 1, i - 1))
                  /\ AllDigits(SubSeq(text, i + 1, j - 1))
                  /\ AllDigits(SubSeq(text, j + 1, n)))
                 => got = ParseInt(SubSeq(text, 1, i - 1)) * 3600
                          + ParseInt(SubSeq(text, i + 1, j - 1)) * 60
                          + ParseInt(SubSeq(text, j + 1, n))
           /\ \A i \in 1..n :
                 (/\ Joined(text, i)
                  /\ AllDigits(SubSeq(text, 1, i - 1))
                  /\ AllDigits(SubSeq(text, i + 1, n)))
                 => got = ParseInt(SubSeq(text, 1, i - 1)) * 60
                          + ParseInt(SubSeq(text, i + 1, n))
           /\ (/\ ~AllDigits(text)
               /\ ~\E i \in 1..n :
                      DigitAt(text, i) /\ Joined(text, i + 1)
                      /\ DigitAt(text, i + 2))
              => got = 0

C24_Witness ==
    /\ FetchedItem
    /\ web.items[1].itunesDuration = "1:02:03"
    /\ Returned[1].duration = 3723

\* C25 (SpecFeed): when the date of every item of the feed parses, no
\* episode of the returned list is followed by one of a later date.
C25_SortedNewestFirst ==
    (/\ FetchedFeed
     /\ \A k \in DOMAIN web.items :
           ValidDate(GetTextContent(web.items[k].pubDate)))
    => \A i, j \in DOMAIN Returned :
          i < j => DateValue(Returned[i].pubDate)
                      >= DateValue(Returned[j].pubDate)

\* the feed of January, March, February
C25_Witness ==
    /\ FetchedFeed /\ Len(web.items) = 3 /\ Len(Returned) = 3
    /\ web.items[1].pubDate = "2024-01-01"
    /\ web.items[2].pubDate = "2024-03-01"
    /\ web.items[3].pubDate = "2024-02-01"
    /\ Returned[1].pubDate = "2024-03-01"
    /\ Returned[2].pubDate = "2024-02-01"
    /\ Returned[3].pubDate = "2024-01-01"

\* the value of an attribute, "" when the element or the attribute is not
\* there
LinkOf(element, attribute) ==
    IF element = Null THEN ""
    ELSE IF element[attribute] = Absent THEN "" ELSE element[attribute]

\* C26 (SpecFeed): the artwork of an episode is the first that is not
\* empty of the href of its itunes:image, the url of its media:content of
\* medium image and the url of its first enclosure of an image type, and
\* "" when there is none.
C26_ArtworkPriority ==
    FetchedItem
    => LET item == web.items[1]
           link == LinkOf(item.itunesImage, "href")
           media == LinkOf(item.mediaImage, "url")
           typed == {k \in DOMAIN item.enclosures :
                        IF item.enclosures[k].type = Absent THEN FALSE
                        ELSE StartsWith(item.enclosures[k].type, "image")}
           enclosed == IF typed = {} THEN ""
                       ELSE LinkOf(item.enclosures[First(typed)], "url")
       IN  Returned[1].artwork =
              (IF link # "" THEN link
               ELSE IF media # "" THEN media
               ELSE enclosed)

\* an empty image link, a media image and an image enclosure on one item
C26_Witness ==
    /\ FetchedItem
    /\ web.items[1].itunesImage = [href |-> ""]
    /\ web.items[1].mediaImage = [url |-> "m.png"]
    /\ Len(web.items[1].enclosures) = 2
    /\ Returned[1].artwork = "m.png"

\* C27 (SpecFeed): the mimeType of every returned episode is a string, and
\* it is audio/mpeg when the enclosure of the item states no type.
C27_MimeTypeDefaults ==
    /\ FetchedFeed => \A i \in DOMAIN Returned : Returned[i].type # Absent
    /\ (FetchedItem /\ web.items[1].enclosures[1].type = Absent)
       => Returned[1].type = "audio/mpeg"

\* C28 (SpecFeed): a getPodcastEpisodes call whose fetch is rejected with
\* a message that holds CORS or blocked raises the CORS error; one whose
\* fetch is rejected with another message, or is answered with a status
\* that is not OK, raises the error of a failed load; neither returns
\* episodes or writes to the cache.
C28_FailureKinds ==
    [][\A c \in FeedCalls :
          (EpisodesDone(c) /\ web.kind \in {"rejected", "status"})
          => /\ api'.answer.kind = "failed"
             /\ api'.answer.value = Null
             /\ store' = store
             /\ raised' =
                   (IF web.kind = "status" THEN EpisodesFailedMessage
                    ELSE IF \/ Includes(web.message, "CORS")
                            \/ Includes(web.message, "blocked")
                    THEN CorsMessage
                    ELSE EpisodesFailedMessage)]_vars

C28_Witness ==
    /\ api.answer.kind = "failed" /\ raised = CorsMessage
    /\ web.kind = "rejected" /\ web.message = "The request was blocked"

----------------------------------------------------------------------------
(* The playing flag, the races and the records of the player *)

\* the next task of the media element is the event ev, and its handler runs
Delivered(ev) ==
    /\ audio.queue # <<>>
    /\ Head(audio.queue) = ev
    /\ \E allowed \in BOOLEAN : Deliver(allowed)

\* C31 (SpecSession): the handler of a play event leaves the playing flag
\* set, the handler of a pause, ended or error event leaves it cleared, and
\* whenever no task of the media element is pending the flag is the
\* negation of the element's paused attribute.
C31_PlayingMirrorsElement ==
    /\ [](audio.queue = <<>> => isPlaying = ~audio.paused)
    /\ [][/\ Delivered("play") => isPlaying'
          /\ (\E ev \in {"pause", "ended", "error"} : Delivered(ev))
             => ~isPlaying']_vars

\* C32 (SpecSupersede): while B, loaded without autoPlay, is the current
\* episode, no race of an earlier load of A calls play(), and the 10 second
\* timer of such a race neither changes the loading state nor reports the
\* loading timeout.
C32_RaceLeavesNextEpisodeAlone ==
    [][currentEpisode = EpisodeB
       => \A i \in DOMAIN races :
             /\ races'[i].plays = races[i].plays
             /\ TimeoutFire(i)
                => loading' = loading /\ ~races'[i].timedOut]_vars

\* C33 (SpecRace): once a race has called play() or its 10 second timer has
\* fired, its poll timer is not scheduled and its canplay listener is not
\* registered.
C33_RaceTerminates ==
    \A i \in DOMAIN races :
       (races[i].plays > 0 \/ ~races[i].timeout)
       => ~races[i].poll /\ ~races[i].listener

\* the race i belongs to the last loadEpisode call and the player was not
\* destroyed since
LastLoad(i) ==
    i \in DOMAIN races /\ i = Len(races) /\ currentEpisode # Null

\* C34 (SpecAutoPlay): when the element has been ready since a
\* loadEpisode(..., autoPlay = true) and neither another loadEpisode nor
\* destroy follows, the race of that load calls play() in the end, and its
\* 10 second timer, firing after the element was ready, does not report the
\* loading timeout.
C34_ReadyLeadsToPlay ==
    /\ \A i \in 1..MaxRaces :
          (LastLoad(i) /\ races[i].ready)
          ~> (~LastLoad(i) \/ races[i].plays > 0)
    /\ [][\A i \in DOMAIN races :
             (LastLoad(i) /\ races[i].ready /\ TimeoutFire(i))
             => ~races'[i].timedOut]_vars

\* C35 (SpecBoot): whenever the player has a current episode, the source of
\* the media element is that episode's audio locator.
C35_SourceIsLoadedEpisode ==
    currentEpisode # Null => audio.src = currentEpisode.audioUrl

\* the step writes the PlaybackPosition record
Written == store'.playbackPosition # store.playbackPosition

\* C36 (SpecSession): a step that writes the PlaybackPosition record is made
\* with an episode loaded and writes that episode's guid and the position of
\* the media element, which is greater than 0 and was reached on that
\* episode's source; a loadEpisode writes no record and leaves the element
\* at position 0 with no time update of the episode before pending.
C36_PositionRecordOfLoadedEpisode ==
    [][/\ Written
          => /\ currentEpisode # Null /\ currentEpisode' = currentEpisode
             /\ audio.src = currentEpisode.audioUrl
             /\ store'.playbackPosition.episodeGuid = currentEpisode.guid
             /\ store'.playbackPosition.position > 0
             /\ store'.playbackPosition.position = audio.currentTime
       /\ \A e \in ValidEpisodes :
             (\E allowed \in BOOLEAN : LoadEpisode(e, FALSE, allowed))
             => /\ ~Written
                /\ audio'.currentTime = 0
                /\ \A k \in DOMAIN audio'.queue :
                      audio'.queue[k] # "timeupdate"]_vars

\* B, loaded over A, has moved on and its position was recorded
C36_Witness ==
    /\ currentEpisode = EpisodeB /\ audio.src = "b.mp3"
    /\ store.playbackPosition # Null
    /\ store.playbackPosition.episodeGuid = "gB"
    /\ store.playbackPosition.position = PlayStep
    /\ audio.currentTime = PlayStep

\* C37 (SpecAutoPlay): while no episode is loaded, a poll tick of a pending
\* race leaves the media element as it is, and the handlers of a canplay
\* event only take the event off the element's tasks: play() is not called
\* on the element.
C37_NoPlayAfterDestroy ==
    [][(currentEpisode = Null /\ races # <<>>)
       => /\ \A i \in DOMAIN races :
                PollTick(i, TRUE) => audio' = audio
          /\ Delivered("canplay")
             => audio' = [audio EXCEPT !.queue = Tail(@)]]_vars

\* the player was destroyed, and the poll and the listener of a race have
\* both run on a ready element that is paused
C37_Witness ==
    /\ currentEpisode = Null
    /\ \E i \in DOMAIN races :
          ~races[i].poll /\ ~races[i].listener /\ races[i].plays = 2
    /\ Ready(audio) /\ audio.paused /\ ~audio.promises /\ ~isPlaying

----------------------------------------------------------------------------
(* Failures and reads of the cache *)

\* the call c fails in this step: on its argument, on its key, or on what
\* its fetch came to
Fails(c) ==
    \/ CatalogCall(c) /\ api'.answer.kind \in {"invalid", "thrown"}
    \/ \E response \in Responses :
          response.status # "ok" /\ FetchDone(c, response)

\* every entry of the store st is an entry of the store was
EntriesOf(st, was) ==
    \A k \in DOMAIN st.cache :
       k \in DOMAIN was.cache /\ st.cache[k] = was.cache[k]

\* C38 (SpecCache): no step that changes the store is the failure of a
\* catalog call, and no step that adds or changes an entry is a call on its
\* way to its fetch; the cache never holds anything but the result of a
\* successful call, and a call is answered from the cache only if the entry
\* under its key is there.
C38_FailureWritesNothing ==
    /\ [](\A k \in DOMAIN store.cache : store.cache[k].value \in Results)
    /\ [][/\ store' # store => \A c \in Calls : ~Fails(c)
          /\ ~EntriesOf(store', store) => \A c \in Calls : ~CatalogCall(c)
          /\ (api'.answer.kind = "hit" /\ now' = now)
             => \A c \in Calls :
                   (Looked(c) /\ CatalogCall(c))
                   => CacheKey(c) \in DOMAIN store'.cache]_vars

\* a call has failed on its fetch while the cache held an entry
C38_Witness ==
    /\ api.answer.kind = "failed"
    /\ DOMAIN store.cache # {}

\* C39 (SpecCache): the catalog call that follows a clearCache is not
\* answered from the cache, whatever its operation.
C39_ClearForcesFetch ==
    [][\A c \in Calls :
          (api.answer.kind = "cleared" /\ CatalogCall(c))
          => api'.answer.kind # "hit"]_vars


\* C40 (SpecCache): a lookup that finds an entry that has not expired leaves
\* the store as it was, timestamp included; a lookup touches no key but the
\* one it reads; and since no lookup renews an entry, the lookup made maxAge
\* or more after the entry was last written finds it absent and removes it.
C40_GetChangesNothing ==
    [][\A c \in Calls :
          (ArgumentValid(c) /\ ~KeyFails(c) /\ CatalogCall(c))
          => LET key == CacheKey(c)
                 maxAge == MaxAgeOf(c.op)
             IN  /\ api'.answer.kind = "hit" => store' = store
                 /\ \A k \in PlayerKeys : store'[k] = store[k]
                 /\ DOMAIN store'.cache \subseteq DOMAIN store.cache
                 /\ \A k \in DOMAIN store.cache \ {key} :
                       /\ k \in DOMAIN store'.cache
                       /\ store'.cache[k] = store.cache[k]
                 /\ (key \in DOMAIN store.cache
                        /\ now - store.cache[key].timestamp >= maxAge)
                    => /\ api'.answer.kind # "hit"
                       /\ key \notin DOMAIN store'.cache]_vars

====
